---- MODULE Spec2Model ----
(***************************************************************************)
(* A model of pydictnotes.py: the module-level dictionary NOTES, the       *)
(* functions that mutate it, the JSON save file, and the command-line      *)
(* block that loads the file, dispatches one option and saves.             *)
(*                                                                         *)
(* Python strings are sequences of one-character strings, so that          *)
(* str.lower() and list.sort() are computed and not assumed.  NOTES is a   *)
(* sequence of [key, description, tags] records in insertion order (a      *)
(* Python dict keeps insertion order); tags is a Python list.  The save    *)
(* file is a sequence of JSON tokens.                                      *)
(***************************************************************************)
EXTENDS Naturals, Sequences, FiniteSets

VARIABLES NOTES, file, op, pc

vars == <<NOTES, file, op, pc>>

(* ------------------------------ bounds -------------------------------- *)

\* The longest argument list (tags of add_entry / update_tags, names of
\* delete_entries, tags of the --tag and --delete options).
MaxArgs == 2

(* ------------------------------ inputs -------------------------------- *)

Names == {<<"a">>, <<"b">>}

Descs == {<<>>, <<"d">>}

TagInputs == {<<>>, <<"F">>, <<"f">>}

Answers == {<<>>, <<"Y">>, <<"n">>}

RECURSIVE SeqsUpTo(_, _)
SeqsUpTo(S, n) ==
  IF n = 0 THEN {<<>>}
  ELSE LET shorter == SeqsUpTo(S, n - 1)
       IN  shorter \cup {Append(s, x) : s \in shorter, x \in S}

TagLists == SeqsUpTo(TagInputs, MaxArgs)

NameLists == SeqsUpTo(Names, MaxArgs) \ {<<>>}

(* --------------------------- Python strings --------------------------- *)

\* str.lower(), one character
LowerChar(c) ==
  CASE c = "F" -> "f"
    [] c = "Y" -> "y"
    [] OTHER   -> c

\* str.lower()
Lower(s) == [i \in 1..Len(s) |-> LowerChar(s[i])]

\* ord(c) of the characters the model uses
Ord(c) ==
  CASE c = "F" -> 70
    [] c = "Y" -> 89
    [] c = "a" -> 97
    [] c = "b" -> 98
    [] c = "d" -> 100
    [] c = "f" -> 102
    [] c = "n" -> 110
    [] c = "y" -> 121
    [] OTHER   -> 0

\* s < t for two Python strings (lexicographic by code point)
RECURSIVE StrLess(_, _)
StrLess(s, t) ==
  IF t = <<>> THEN FALSE
  ELSE IF s = <<>> THEN TRUE
  ELSE IF Ord(Head(s)) # Ord(Head(t)) THEN Ord(Head(s)) < Ord(Head(t))
  ELSE StrLess(Tail(s), Tail(t))

\* list.sort() of a list of strings (stable insertion sort)
RECURSIVE Insert(_, _)
Insert(x, l) ==
  IF l = <<>> THEN <<x>>
  ELSE IF StrLess(x, Head(l)) THEN <<x>> \o l
  ELSE <<Head(l)>> \o Insert(x, Tail(l))

RECURSIVE Sorted(_)
Sorted(l) ==
  IF l = <<>> THEN <<>>
  ELSE Insert(l[Len(l)], Sorted(SubSeq(l, 1, Len(l) - 1)))

\* [a.lower() for a in args]
LowerAll(l) == [i \in 1..Len(l) |-> Lower(l[i])]

Range(l) == {l[i] : i \in 1..Len(l)}

\* list(set(l)): the elements of l once each, in an order that depends on
\* the hash seed of the process: every order is possible.
ListOfSet(l) ==
  {p \in [1..Cardinality(Range(l)) -> Range(l)] : Range(p) = Range(l)}

\* list.remove(x): drops the first occurrence of x
RECURSIVE ListRemove(_, _)
ListRemove(l, x) ==
  IF l = <<>> THEN <<>>
  ELSE IF Head(l) = x THEN Tail(l)
  ELSE <<Head(l)>> \o ListRemove(Tail(l), x)

(* ----------------------------- Python dict ---------------------------- *)

Keys(notes) == {notes[i].key : i \in 1..Len(notes)}

Index(notes, k) == CHOOSE i \in 1..Len(notes) : notes[i].key = k

\* notes[k]
Get(notes, k) == notes[Index(notes, k)]

Entry(k, d, t) == [key |-> k, description |-> d, tags |-> t]

\* notes[k] = {"description": d, "tags": t}
DictSet(notes, k, d, t) ==
  IF k \in Keys(notes)
  THEN [notes EXCEPT ![Index(notes, k)] = Entry(k, d, t)]
  ELSE Append(notes, Entry(k, d, t))

\* notes.pop(k), k a key of notes
DictPop(notes, k) ==
  LET i == Index(notes, k)
  IN  SubSeq(notes, 1, i - 1) \o SubSeq(notes, i + 1, Len(notes))

(* ------------------------------- JSON --------------------------------- *)

Punct(c) == [k |-> "punct", v |-> <<c>>]

Str(s) == [k |-> "str", v |-> s]

EndOfText == [k |-> "eof", v |-> <<>>]

DescriptionKey == <<"description">>

TagsKey == <<"tags">>

\* the items of a JSON array or object, separated by commas
RECURSIVE Joined(_)
Joined(parts) ==
  IF parts = <<>> THEN <<>>
  ELSE IF Len(parts) = 1 THEN parts[1]
  ELSE parts[1] \o <<Punct(",")>> \o Joined(Tail(parts))

\* json.dump of a list of strings
DumpList(l) ==
  <<Punct("[")>> \o Joined([i \in 1..Len(l) |-> <<Str(l[i])>>]) \o <<Punct("]")>>

\* json.dump of {"description": ..., "tags": [...]}
DumpEntry(e) ==
  <<Punct("{"), Str(DescriptionKey), Punct(":"), Str(e.description), Punct(","),
    Str(TagsKey), Punct(":")>> \o DumpList(e.tags) \o <<Punct("}")>>

\* json.dump(NOTES): the keys in the dict's order
Dumps(notes) ==
  <<Punct("{")>>
  \o Joined([i \in 1..Len(notes) |->
               <<Str(notes[i].key), Punct(":")>> \o DumpEntry(notes[i])])
  \o <<Punct("}")>>

Tok(t, i) == IF i \in 1..Len(t) THEN t[i] ELSE EndOfText

Failed == [ok |-> FALSE, val |-> <<>>, pos |-> 0]

\* the strings of a non-empty JSON array, from the first one at t[i]
RECURSIVE ParseItems(_, _, _)
ParseItems(t, i, acc) ==
  IF Tok(t, i).k # "str" THEN Failed
  ELSE IF Tok(t, i + 1) = Punct("]")
       THEN [ok |-> TRUE, val |-> Append(acc, t[i].v), pos |-> i + 2]
  ELSE IF Tok(t, i + 1) = Punct(",")
       THEN ParseItems(t, i + 2, Append(acc, t[i].v))
  ELSE Failed

\* a JSON array of strings at t[i]
ParseList(t, i) ==
  IF Tok(t, i) # Punct("[") THEN Failed
  ELSE IF Tok(t, i + 1) = Punct("]")
       THEN [ok |-> TRUE, val |-> <<>>, pos |-> i + 2]
  ELSE ParseItems(t, i + 1, <<>>)

\* an entry object at t[i], in the layout save_file writes
ParseEntry(t, i) ==
  IF /\ Tok(t, i) = Punct("{")
     /\ Tok(t, i + 1) = Str(DescriptionKey)
     /\ Tok(t, i + 2) = Punct(":")
     /\ Tok(t, i + 3).k = "str"
     /\ Tok(t, i + 4) = Punct(",")
     /\ Tok(t, i + 5) = Str(TagsKey)
     /\ Tok(t, i + 6) = Punct(":")
  THEN LET l == ParseList(t, i + 7)
       IN  IF l.ok /\ Tok(t, l.pos) = Punct("}")
           THEN [ok |-> TRUE,
                 val |-> [description |-> t[i + 3].v, tags |-> l.val],
                 pos |-> l.pos + 1]
           ELSE Failed
  ELSE Failed

\* the members of a non-empty JSON object, from the first key at t[i];
\* a key that comes twice keeps its last value, as in a Python dict
RECURSIVE ParseMembers(_, _, _)
ParseMembers(t, i, acc) ==
  IF Tok(t, i).k # "str" \/ Tok(t, i + 1) # Punct(":") THEN Failed
  ELSE LET e == ParseEntry(t, i + 2)
       IN  IF ~e.ok THEN Failed
           ELSE LET acc2 == DictSet(acc, t[i].v, e.val.description, e.val.tags)
                IN  IF Tok(t, e.pos) = Punct("}")
                    THEN [ok |-> TRUE, val |-> acc2, pos |-> e.pos + 1]
                    ELSE IF Tok(t, e.pos) = Punct(",")
                    THEN ParseMembers(t, e.pos + 1, acc2)
                    ELSE Failed

\* json.loads(data): ok is FALSE where json.loads raises JSONDecodeError.
\* Only the layout save_file writes is read as a store.
Loads(t) ==
  IF Tok(t, 1) # Punct("{") THEN Failed
  ELSE LET r == IF Tok(t, 2) = Punct("}")
                THEN [ok |-> TRUE, val |-> <<>>, pos |-> 3]
                ELSE ParseMembers(t, 2, <<>>)
       IN  IF r.ok /\ r.pos = Len(t) + 1 THEN r ELSE Failed

(* ------------------------------ the file ------------------------------ *)

NoFile == [exists |-> FALSE, data |-> <<>>]

FileWith(t) == [exists |-> TRUE, data |-> t]

\* texts that are not JSON: an empty file, a file cut after its first brace
CorruptTexts == {<<>>, <<Punct("{")>>}

\* what PATH_TO_JSON may hold before the program first runs
InitialFiles == {NoFile, FileWith(Dumps(<<>>))} \cup {FileWith(t) : t \in CorruptTexts}

(* ------------------- the functions, as pure effects ------------------- *)

Outcome(exc, ret, notes) == [exc |-> exc, ret |-> ret, notes |-> notes]

\* confirm(question, default): the answer typed, lowercased, looked up in
\* valid; an empty answer is the default; anything else is False.
confirm(answer, default) ==
  LET a == Lower(answer)
  IN  IF a = <<>> THEN default = "yes"
      ELSE IF a \in {<<"y", "e", "s">>, <<"y", "e">>, <<"y">>} THEN TRUE
      ELSE FALSE

\* add_entry: NOTES[entry] = {"description": description, "tags": sorted
\* lowercased args}; the assignment replaces an entry of the same name.
add_entry_effect(notes, entry, description, args) ==
  Outcome("none", "True", DictSet(notes, entry, description, Sorted(LowerAll(args))))

\* edit_description that assigns a whole new entry: a missing entry is
\* created and the tags are lost
edit_description_effect_new_entry(notes, entry, new_desc) ==
  Outcome("none", "None", DictSet(notes, entry, new_desc, <<>>))

\* edit_description: NOTES[entry]["description"] = new_desc
edit_description_effect(notes, entry, new_desc) ==
  IF entry \notin Keys(notes) THEN Outcome("KeyError", "raised", notes)
  ELSE Outcome("none", "None",
               DictSet(notes, entry, new_desc, Get(notes, entry).tags))

\* add_tag without the call of lower(): the tag is stored as typed
add_tag_effect_no_lower(notes, entry, tag) ==
  IF entry \notin Keys(notes) THEN {Outcome("KeyError", "raised", notes)}
  ELSE LET e == Get(notes, entry)
       IN  {Outcome("none", "True", DictSet(notes, entry, e.description, l)) :
              l \in ListOfSet(Append(e.tags, tag))}

\* add_tag: append tag.lower(), then NOTES[entry]["tags"] = list(set(tags))
add_tag_effect(notes, entry, tag) ==
  IF entry \notin Keys(notes) THEN {Outcome("KeyError", "raised", notes)}
  ELSE LET e == Get(notes, entry)
       IN  {Outcome("none", "True", DictSet(notes, entry, e.description, l)) :
              l \in ListOfSet(Append(e.tags, Lower(tag)))}

\* remove_tag: NOTES[entry]["tags"].remove(tag.lower())
remove_tag_effect(notes, entry, tag) ==
  IF entry \notin Keys(notes) THEN Outcome("KeyError", "raised", notes)
  ELSE LET e == Get(notes, entry)
       IN  IF Lower(tag) \notin Range(e.tags)
           THEN Outcome("ValueError", "raised", notes)
           ELSE Outcome("none", "None",
                        DictSet(notes, entry, e.description,
                                ListRemove(e.tags, Lower(tag))))

\* update_tags: NOTES[entry]["tags"] = list(set(lowercased tags))
update_tags_effect(notes, entry, tags) ==
  IF entry \notin Keys(notes) THEN {Outcome("KeyError", "raised", notes)}
  ELSE {Outcome("none", "None",
                DictSet(notes, entry, Get(notes, entry).description, l)) :
          l \in ListOfSet(LowerAll(tags))}

\* for e in entries: NOTES.pop(e) -- the pops before a missing name are done
RECURSIVE PopEach(_, _)
PopEach(notes, entries) ==
  IF entries = <<>> THEN Outcome("none", "True", notes)
  ELSE IF Head(entries) \notin Keys(notes) THEN Outcome("KeyError", "raised", notes)
  ELSE PopEach(DictPop(notes, Head(entries)), Tail(entries))

\* delete_entries: asks before deleting more than one entry
delete_entries_effect(notes, entries, answer) ==
  IF Len(entries) > 1 /\ ~confirm(answer, "yes")
  THEN Outcome("none", "False", notes)
  ELSE PopEach(notes, entries)

\* delete_all_entries asking with the default answer of confirm, yes
delete_all_entries_effect_default_yes(notes, answer) ==
  IF ~confirm(answer, "yes") THEN Outcome("none", "False", notes)
  ELSE Outcome("none", "True", <<>>)

\* delete_all_entries: asks (default no), then NOTES.clear(); the caller
\* writes the file when ret is "True"
delete_all_entries_effect(notes, answer) ==
  IF ~confirm(answer, "no") THEN Outcome("none", "False", notes)
  ELSE Outcome("none", "True", <<>>)

\* save_file: json.dump(NOTES, out_file) on the file opened with "w"
save_file_effect(notes) == FileWith(Dumps(notes))

\* the load with json.loads(data) bound to a local name: the module's NOTES
\* stays {}
load_effect_local(f) ==
  IF ~f.exists
  THEN [exc |-> "IOError", notes |-> <<>>, file |-> FileWith(Dumps(<<>>))]
  ELSE IF ~Loads(f.data).ok
  THEN [exc |-> "JSONDecodeError", notes |-> <<>>, file |-> f]
  ELSE [exc |-> "none", notes |-> <<>>, file |-> f]

\* the try block at the start of __main__: NOTES is {} when the module is
\* loaded; a file that parses replaces it, a file that does not parse is
\* reported and left alone, a missing file is written as {}.
load_effect(f) ==
  IF ~f.exists
  THEN [exc |-> "IOError", notes |-> <<>>, file |-> FileWith(Dumps(<<>>))]
  ELSE IF ~Loads(f.data).ok
  THEN [exc |-> "JSONDecodeError", notes |-> <<>>, file |-> f]
  ELSE [exc |-> "none", notes |-> Loads(f.data).val, file |-> f]

(* ---------------------- the functions, as actions --------------------- *)

\* The last call: its function, the entry and the tag or description it was
\* given, the answer typed at its prompt, what it raised or returned, and
\* whether it left NOTES different.  Argument lists are not recorded.
Call(fn, entry, text, answer, o) ==
  [fn |-> fn, entry |-> entry, text |-> text, answer |-> answer,
   exc |-> o.exc, ret |-> o.ret, changed |-> (o.notes # NOTES)]

NoCall == [fn |-> "none", entry |-> <<>>, text |-> <<>>, answer |-> <<>>,
           exc |-> "none", ret |-> "None", changed |-> FALSE]

add_entry(entry, description, args) ==
  LET o == add_entry_effect(NOTES, entry, description, args)
  IN  /\ NOTES' = o.notes
      /\ op' = Call("add_entry", entry, description, <<>>, o)
      /\ UNCHANGED <<file, pc>>

edit_description(entry, new_desc) ==
  LET o == edit_description_effect(NOTES, entry, new_desc)
  IN  /\ NOTES' = o.notes
      /\ op' = Call("edit_description", entry, new_desc, <<>>, o)
      /\ UNCHANGED <<file, pc>>

add_tag(entry, tag) ==
  \E o \in add_tag_effect(NOTES, entry, tag) :
    /\ NOTES' = o.notes
    /\ op' = Call("add_tag", entry, tag, <<>>, o)
    /\ UNCHANGED <<file, pc>>

remove_tag(entry, tag) ==
  LET o == remove_tag_effect(NOTES, entry, tag)
  IN  /\ NOTES' = o.notes
      /\ op' = Call("remove_tag", entry, tag, <<>>, o)
      /\ UNCHANGED <<file, pc>>

update_tags(entry, tags) ==
  \E o \in update_tags_effect(NOTES, entry, tags) :
    /\ NOTES' = o.notes
    /\ op' = Call("update_tags", entry, <<>>, <<>>, o)
    /\ UNCHANGED <<file, pc>>

delete_entries(entries, answer) ==
  LET o == delete_entries_effect(NOTES, entries, answer)
  IN  /\ NOTES' = o.notes
      /\ op' = Call("delete_entries", <<>>, <<>>, answer, o)
      /\ UNCHANGED <<file, pc>>

delete_all_entries(answer) ==
  LET o == delete_all_entries_effect(NOTES, answer)
  IN  /\ NOTES' = o.notes
      /\ file' = IF o.ret = "True" THEN save_file_effect(o.notes) ELSE file
      /\ op' = Call("delete_all_entries", <<>>, <<>>, answer, o)
      /\ UNCHANGED pc

(* ------------- the functions called in any order: Spec ---------------- *)

Init ==
  /\ NOTES = <<>>
  /\ file = NoFile
  /\ op = NoCall
  /\ pc = "lib"

Next ==
  \/ \E n \in Names, d \in Descs, a \in TagLists : add_entry(n, d, a)
  \/ \E n \in Names, d \in Descs : edit_description(n, d)
  \/ \E n \in Names, t \in TagInputs : add_tag(n, t)
  \/ \E n \in Names, t \in TagInputs : remove_tag(n, t)
  \/ \E n \in Names, a \in TagLists : update_tags(n, a)
  \/ \E l \in NameLists, a \in Answers : delete_entries(l, a)
  \/ \E a \in Answers : delete_all_entries(a)

Spec == Init /\ [][Next]_vars

(* ------------------ save and load alone: PersistSpec ------------------ *)

\* the tag lists the functions can leave on an entry: add_entry leaves a
\* sorted list, add_tag and update_tags a list without repeats in any order
TagListsStored ==
  {Sorted(LowerAll(a)) : a \in TagLists}
    \cup UNION {ListOfSet(LowerAll(a)) : a \in TagLists}

EntriesStored(k) == {Entry(k, d, t) : d \in Descs, t \in TagListsStored}

\* the stores of at most two entries the functions can build
Stores ==
  {<<>>}
    \cup UNION {{<<e>> : e \in EntriesStored(k)} : k \in Names}
    \cup UNION {{<<e1, e2>> : e1 \in EntriesStored(p[1]), e2 \in EntriesStored(p[2])} :
                  p \in {q \in Names \X Names : q[1] # q[2]}}

save_file ==
  /\ file' = save_file_effect(NOTES)
  /\ op' = Call("save_file", <<>>, <<>>, <<>>, Outcome("none", "None", NOTES))
  /\ UNCHANGED <<NOTES, pc>>

\* a new process: the module is loaded and the file is read
load ==
  LET r == load_effect(file)
  IN  /\ NOTES' = r.notes
      /\ file' = r.file
      /\ op' = Call("load", <<>>, <<>>, <<>>, Outcome(r.exc, "None", r.notes))
      /\ UNCHANGED pc

PersistInit ==
  /\ NOTES \in Stores
  /\ file \in InitialFiles
  /\ op = NoCall
  /\ pc = "lib"

PersistNext == save_file \/ load

PersistSpec == PersistInit /\ [][PersistNext]_vars

(* ------------------- the command line block: CliSpec ------------------ *)

\* for t in tags: add_tag(entry, t) -- stops at the first exception
RECURSIVE add_tags_effect(_, _, _)
add_tags_effect(notes, entry, tags) ==
  IF tags = <<>> THEN {Outcome("none", "None", notes)}
  ELSE UNION {IF o.exc # "none" THEN {o}
              ELSE add_tags_effect(o.notes, entry, Tail(tags)) :
                o \in add_tag_effect(notes, entry, Head(tags))}

\* for t in tags: remove_tag(entry, t) -- stops at the first exception
RECURSIVE remove_tags_effect(_, _, _)
remove_tags_effect(notes, entry, tags) ==
  IF tags = <<>> THEN Outcome("none", "None", notes)
  ELSE LET o == remove_tag_effect(notes, entry, Head(tags))
       IN  IF o.exc # "none" THEN o
           ELSE remove_tags_effect(o.notes, entry, Tail(tags))

\* where the process is after an option's code: an exception nobody catches
\* ends it before the lines that follow
After(o) == IF o.exc = "none" THEN "exit" ELSE "crashed"

\* the try block of __main__, run once by each process
main_load ==
  /\ pc = "start"
  /\ LET r == load_effect(file)
     IN  /\ NOTES' = r.notes
         /\ file' = r.file
         /\ op' = Call("load", <<>>, <<>>, <<>>, Outcome(r.exc, "None", r.notes))
  /\ pc' = "loaded"

\* --add ENTRY TAG [TAG ...]: add_entry(args.add[0], "", args.add[1]), then
\* add_tag for the other tags, then save_file; args.add[1] of a single
\* argument raises IndexError
option_add(entry, tags) ==
  /\ pc = "loaded"
  /\ \E o \in (IF tags = <<>> THEN {Outcome("IndexError", "raised", NOTES)}
               ELSE add_tags_effect(
                      add_entry_effect(NOTES, entry, <<>>, <<Head(tags)>>).notes,
                      entry, Tail(tags))) :
       /\ NOTES' = o.notes
       /\ file' = IF o.exc = "none" THEN save_file_effect(o.notes) ELSE file
       /\ op' = Call("option_add", entry, <<>>, <<>>, o)
       /\ pc' = After(o)

\* --list: print_entries()
option_list ==
  /\ pc = "loaded"
  /\ op' = Call("option_list", <<>>, <<>>, <<>>, Outcome("none", "None", NOTES))
  /\ pc' = "exit"
  /\ UNCHANGED <<NOTES, file>>

\* --remove-all: delete_all_entries(), then save_file()
option_rmall(answer) ==
  /\ pc = "loaded"
  /\ LET o == delete_all_entries_effect(NOTES, answer)
     IN  /\ NOTES' = o.notes
         /\ file' = save_file_effect(o.notes)
         /\ op' = Call("option_rmall", <<>>, <<>>, answer, o)
  /\ pc' = "exit"

\* --tag ENTRY [TAG ...]: add_tag for each tag, then save_file
option_tag(entry, tags) ==
  /\ pc = "loaded"
  /\ \E o \in add_tags_effect(NOTES, entry, tags) :
       /\ NOTES' = o.notes
       /\ file' = IF o.exc = "none" THEN save_file_effect(o.notes) ELSE file
       /\ op' = Call("option_tag", entry, <<>>, <<>>, o)
       /\ pc' = After(o)

\* --edit ENTRY [DESCRIPTION]: edit_description(args.edit[0], args.edit[1]);
\* no save_file follows
option_edit(entry, rest) ==
  /\ pc = "loaded"
  /\ LET o == IF rest = <<>> THEN Outcome("IndexError", "raised", NOTES)
              ELSE edit_description_effect(NOTES, entry, Head(rest))
     IN  /\ NOTES' = o.notes
         /\ op' = Call("option_edit", entry, IF rest = <<>> THEN <<>> ELSE Head(rest),
                       <<>>, o)
         /\ pc' = After(o)
  /\ UNCHANGED file

\* --remove ENTRY [ENTRY ...]: delete_entries(args.remove), then save_file
option_remove(entries, answer) ==
  /\ pc = "loaded"
  /\ LET o == delete_entries_effect(NOTES, entries, answer)
     IN  /\ NOTES' = o.notes
         /\ file' = IF o.exc = "none" THEN save_file_effect(o.notes) ELSE file
         /\ op' = Call("option_remove", <<>>, <<>>, answer, o)
         /\ pc' = After(o)

\* --delete ENTRY [TAG ...]: remove_tag for each tag, then save_file
option_delete(entry, tags) ==
  /\ pc = "loaded"
  /\ LET o == remove_tags_effect(NOTES, entry, tags)
     IN  /\ NOTES' = o.notes
         /\ file' = IF o.exc = "none" THEN save_file_effect(o.notes) ELSE file
         /\ op' = Call("option_delete", entry, <<>>, <<>>, o)
         /\ pc' = After(o)

\* the next run of the program: a new process, NOTES = {} (line 28)
next_run ==
  /\ pc \in {"exit", "crashed"}
  /\ NOTES' = <<>>
  /\ op' = NoCall
  /\ pc' = "start"
  /\ UNCHANGED file

CliInit ==
  /\ NOTES = <<>>
  /\ file \in InitialFiles
  /\ op = NoCall
  /\ pc = "start"

CliNext ==
  \/ main_load
  \/ \E n \in Names, a \in TagLists : option_add(n, a)
  \/ option_list
  \/ \E a \in Answers : option_rmall(a)
  \/ \E n \in Names, a \in TagLists : option_tag(n, a)
  \/ \E n \in Names, r \in {<<>>} \cup {<<d>> : d \in Descs} : option_edit(n, r)
  \/ \E l \in NameLists, a \in Answers : option_remove(l, a)
  \/ \E n \in Names, a \in TagLists : option_delete(n, a)
  \/ next_run

CliSpec == CliInit /\ [][CliNext]_vars

(* ------------------------------ the claims ---------------------------- *)

\* the tags of entry k, as a set
TagSet(notes, k) == Range(Get(notes, k).tags)

\* how many times x comes in the list l
Count(l, x) == Cardinality({i \in 1..Len(l) : l[i] = x})

\* every entry other than k is the same in both stores
OthersSame(before, after, k) ==
  \A j \in (Keys(before) \cup Keys(after)) \ {k} :
    /\ j \in Keys(before)
    /\ j \in Keys(after)
    /\ Get(after, j) = Get(before, j)

Yes == {<<"y">>, <<"y", "e">>, <<"y", "e", "s">>}

\* C1: delete_entries(names) is atomic: when a name of the list is not a key
\* the call raises and the store is as before; when every name is a key all
\* of them are removed.  Stated for lists without repeats and for calls the
\* user did not decline at the prompt.
C1_DeleteEntriesAtomic ==
  [][op'.fn = "delete_entries" =>
       \A l \in NameLists :
         (/\ Cardinality(Range(l)) = Len(l)
          /\ (Len(l) > 1 => Lower(op'.answer) \in Yes \cup {<<>>})
          /\ delete_entries(l, op'.answer))
         => IF Range(l) \subseteq Keys(NOTES)
            THEN op'.exc = "none" /\ Keys(NOTES') = Keys(NOTES) \ Range(l)
            ELSE op'.exc = "KeyError" /\ NOTES' = NOTES]_vars

\* C2: add_entry of a name that is already a key fails and leaves the entry
\* of that name as it was.
C2_AddEntryRejectsDuplicate ==
  [][(op'.fn = "add_entry" /\ op'.entry \in Keys(NOTES)) =>
       /\ op'.exc # "none"
       /\ Get(NOTES', op'.entry) = Get(NOTES, op'.entry)]_vars

\* C3: in every reachable store every entry's tags are non-empty lowercase
\* strings and no tag comes twice.
C3_TagsNormalized ==
  \A i \in 1..Len(NOTES) :
    /\ \A t \in Range(NOTES[i].tags) : t # <<>> /\ Lower(t) = t
    /\ Cardinality(Range(NOTES[i].tags)) = Len(NOTES[i].tags)

\* C4: add_tag(name, t) on an existing entry raises nothing and leaves the
\* entry's tag set equal to the old one plus lower(t), with lower(t) in the
\* list exactly once; so it changes no tag set when lower(t) was there.
C4_AddTagIdempotent ==
  [][(op'.fn = "add_tag" /\ op'.entry \in Keys(NOTES)) =>
       /\ op'.exc = "none"
       /\ op'.entry \in Keys(NOTES')
       /\ TagSet(NOTES', op'.entry) = TagSet(NOTES, op'.entry) \cup {Lower(op'.text)}
       /\ Count(Get(NOTES', op'.entry).tags, Lower(op'.text)) = 1]_vars

\* add_tag("F") on an entry of two tags, "f" among them, left NOTES as it was
C4_Witness ==
  /\ op.fn = "add_tag"
  /\ op.text = <<"F">>
  /\ op.exc = "none"
  /\ ~op.changed
  /\ op.entry \in Keys(NOTES)
  /\ Get(NOTES, op.entry).tags \in {<<<<"f">>, <<>>>>, <<<<>>, <<"f">>>>}

\* C5: remove_tag on a missing entry raises KeyError and on a missing tag
\* ValueError, the store unchanged in both cases; otherwise it removes that
\* tag, and only that tag, from the entry's tag set and changes nothing else.
C5_RemoveTag ==
  [][op'.fn = "remove_tag" =>
       IF op'.entry \notin Keys(NOTES)
       THEN op'.exc = "KeyError" /\ NOTES' = NOTES
       ELSE IF Lower(op'.text) \notin TagSet(NOTES, op'.entry)
       THEN op'.exc = "ValueError" /\ NOTES' = NOTES
       ELSE /\ op'.exc = "none"
            /\ op'.entry \in Keys(NOTES')
            /\ TagSet(NOTES', op'.entry) = TagSet(NOTES, op'.entry) \ {Lower(op'.text)}
            /\ Get(NOTES', op'.entry).description = Get(NOTES, op'.entry).description
            /\ OthersSame(NOTES, NOTES', op'.entry)]_vars

\* C6: edit_description(name, d) on an existing entry sets its description to
\* d and leaves its tags, the keys and every other entry as they were; on a
\* missing name it raises KeyError and leaves the store as it was.
C6_EditDescription ==
  [][op'.fn = "edit_description" =>
       IF op'.entry \in Keys(NOTES)
       THEN /\ op'.exc = "none"
            /\ Keys(NOTES') = Keys(NOTES)
            /\ Get(NOTES', op'.entry).description = op'.text
            /\ Get(NOTES', op'.entry).tags = Get(NOTES, op'.entry).tags
            /\ OthersSame(NOTES, NOTES', op'.entry)
       ELSE op'.exc = "KeyError" /\ NOTES' = NOTES]_vars

\* edit_description gave an entry with tags a description it did not have
C6_Witness ==
  /\ op.fn = "edit_description"
  /\ op.exc = "none"
  /\ op.changed
  /\ op.entry \in Keys(NOTES)
  /\ Get(NOTES, op.entry).description = op.text
  /\ Get(NOTES, op.entry).tags # <<>>
  /\ Len(NOTES) = 2

\* C7: a load that follows a save_file raises nothing and gives a store with
\* the names, the description of each name and the tag set of each name that
\* the saved store had.
C7_RoundTrip ==
  [][(op.fn = "save_file" /\ op'.fn = "load") =>
       /\ op'.exc = "none"
       /\ Keys(NOTES') = Keys(NOTES)
       /\ \A k \in Keys(NOTES) :
            /\ Get(NOTES', k).description = Get(NOTES, k).description
            /\ TagSet(NOTES', k) = TagSet(NOTES, k)]_vars

\* a load read back two entries, one with a tag twice: the initial files
\* hold no entry, so a save_file wrote them
C7_Witness ==
  /\ op.fn = "load"
  /\ op.exc = "none"
  /\ Len(NOTES) = 2
  /\ \E i \in 1..2 : NOTES[i].tags = <<<<"f">>, <<"f">>>>
  /\ \E i \in 1..2 : NOTES[i].description = <<"d">>

\* C8, as claimed: after every call of delete_all_entries the store is empty.
C8_ClearAllUnconditional == op.fn = "delete_all_entries" => NOTES = <<>>

\* C8, amended: delete_all_entries empties the store, writes the empty store
\* to the file and returns True when the answer, lowercased, is y, ye or yes;
\* on any other answer, the empty one included, it returns False and leaves
\* the store and the file as they were.
C8_ClearAllWhenConfirmed ==
  [][op'.fn = "delete_all_entries" =>
       IF Lower(op'.answer) \in Yes
       THEN /\ NOTES' = <<>>
            /\ file' = FileWith(Dumps(<<>>))
            /\ op'.ret = "True"
       ELSE /\ NOTES' = NOTES
            /\ file' = file
            /\ op'.ret = "False"]_vars

\* a confirmed delete_all_entries emptied a store that had entries
C8_Witness ==
  /\ op.fn = "delete_all_entries"
  /\ op.answer = <<"Y">>
  /\ op.ret = "True"
  /\ op.changed
  /\ NOTES = <<>>
  /\ file = FileWith(Dumps(<<>>))

\* C9: a load that met text that is not JSON does not leave the process
\* going on with an empty store, which is the outcome of a missing file.
C9_CorruptLoadFails ==
  ~(/\ op.fn = "load"
    /\ op.exc = "JSONDecodeError"
    /\ pc = "loaded"
    /\ NOTES = <<>>)

MutatingOptions ==
  {"option_add", "option_tag", "option_edit", "option_remove", "option_delete",
   "option_rmall"}

\* C10: when a run of one mutating option ends without an exception, the file
\* holds the store the process ends with.
C10_MutationsPersisted ==
  (pc = "exit" /\ op.fn \in MutatingOptions) => file = FileWith(Dumps(NOTES))

====
